---- MODULE Spec2Model ----
(***************************************************************************)
(* Sparse voxel octree of voxel-ecs (core/voxel/octree.ts).                *)
(*                                                                         *)
(* A node is a record [position, size, depth, maxDepth, children, voxel].  *)
(* `children` is NoChildren (the source's null) or the sequence of the 8   *)
(* child nodes; child index i of the source is element i + 1.  `voxel` is  *)
(* Null or a record [material, color, active].  Voxels are held by value:  *)
(* every setVoxel call passes a fresh object literal, as the scene code    *)
(* does.  Coordinates, sizes and colour components are integers: every     *)
(* configuration keeps node corners on the integer grid, and such values   *)
(* are stored exactly by the Float32Array of vec3 and of getVertices.      *)
(***************************************************************************)
EXTENDS Integers, Sequences, FiniteSets

VARIABLES root, call, world, ledger, reference, renderer, scene, frames

vars == <<root, call, world, ledger, reference, renderer, scene, frames>>

\* What the operations of the octree leave alone.
outsideOctree == <<world, ledger, reference, renderer, scene, frames>>

\* What the operations of the world leave alone.
outsideWorld == <<root, reference, renderer, scene, frames>>

\* What the operations of the renderer leave alone.
outsideRenderer == <<root, world, ledger, reference, scene, frames>>

(* --------------------------- values ----------------------------------- *)

Null == [null |-> TRUE]

NoChildren == << >>

CHILD_COUNT == 8

\* (size, maxDepth) pairs handed to the constructor: a single leaf, a unit
\* grid of 2 x 2 x 2 cells and a grid of 2 x 2 x 2 cells of edge 2.
Configs ==
  { [size |-> 2, maxDepth |-> 0],
    [size |-> 2, maxDepth |-> 1],
    [size |-> 4, maxDepth |-> 1] }

\* The unit grid of 4 x 4 x 4 cells, in which a cell can have six neighbours.
Configs4 == { [size |-> 4, maxDepth |-> 2] }

\* Positions passed to the operations: the origin, a neighbour on each axis
\* and, on the X axis, position + size of the configurations of size 2 and 4.
Positions ==
  { <<0, 0, 0>>, <<-1, 0, 0>>, <<0, -1, 0>>, <<0, 0, -1>>, <<1, 0, 0>>,
    <<2, 0, 0>> }

\* The origin, its six neighbours and a position outside the volume.
Positions4 ==
  { <<0, 0, 0>>, <<1, 0, 0>>, <<-1, 0, 0>>, <<0, 1, 0>>, <<0, -1, 0>>,
    <<0, 0, 1>>, <<0, 0, -1>>, <<2, 0, 0>> }

\* Voxel values passed to setVoxel.
Voxels ==
  { [material |-> 1, color |-> <<1, 0, 0, 1>>, active |-> TRUE],
    [material |-> 2, color |-> <<0, 1, 0, 1>>, active |-> FALSE] }

Voxels4 ==
  { [material |-> 1, color |-> <<1, 0, 0, 1>>, active |-> TRUE] }

(* --------------------------- OctreeNode ------------------------------- *)

OctreeNode(position, size, depth, maxDepth) ==
  [position |-> position, size |-> size, depth |-> depth,
   maxDepth |-> maxDepth, children |-> NoChildren, voxel |-> Null]

\* The upper bounds taken as closed.
containsPointClosed(node, position) ==
  /\ position[1] >= node.position[1]
  /\ position[1] <= node.position[1] + node.size
  /\ position[2] >= node.position[2]
  /\ position[2] <= node.position[2] + node.size
  /\ position[3] >= node.position[3]
  /\ position[3] <= node.position[3] + node.size

containsPoint(node, position) ==
  /\ position[1] >= node.position[1]
  /\ position[1] < node.position[1] + node.size
  /\ position[2] >= node.position[2]
  /\ position[2] < node.position[2] + node.size
  /\ position[3] >= node.position[3]
  /\ position[3] < node.position[3] + node.size

\* Octant bits of X and Z exchanged.
getChildIndexSwapped(node, position) ==
  LET halfSize == node.size \div 2
  IN  (IF position[1] >= node.position[1] + halfSize THEN 4 ELSE 0)
    + (IF position[2] >= node.position[2] + halfSize THEN 2 ELSE 0)
    + (IF position[3] >= node.position[3] + halfSize THEN 1 ELSE 0)

getChildIndexForPosition(node, position) ==
  LET halfSize == node.size \div 2
  IN  (IF position[1] >= node.position[1] + halfSize THEN 1 ELSE 0)
    + (IF position[2] >= node.position[2] + halfSize THEN 2 ELSE 0)
    + (IF position[3] >= node.position[3] + halfSize THEN 4 ELSE 0)

\* i & 1, i & 2, i & 4 of subdivide, as truth values.
Bit(i, b) == (i \div b) % 2 = 1

\* The Y and Z bits of the child index exchanged when placing the children.
subdivideSwapped(node) ==
  LET halfSize == node.size \div 2
      childPos(i) ==
        << node.position[1] + (IF Bit(i, 1) THEN halfSize ELSE 0),
           node.position[2] + (IF Bit(i, 4) THEN halfSize ELSE 0),
           node.position[3] + (IF Bit(i, 2) THEN halfSize ELSE 0) >>
  IN  [node EXCEPT !.children =
         [k \in 1..CHILD_COUNT |->
            OctreeNode(childPos(k - 1), halfSize, node.depth + 1, node.maxDepth)]]

\* The children given the size of the parent.
subdivideUnhalved(node) ==
  LET halfSize == node.size \div 2
      childPos(i) ==
        << node.position[1] + (IF Bit(i, 1) THEN halfSize ELSE 0),
           node.position[2] + (IF Bit(i, 2) THEN halfSize ELSE 0),
           node.position[3] + (IF Bit(i, 4) THEN halfSize ELSE 0) >>
  IN  [node EXCEPT !.children =
         [k \in 1..CHILD_COUNT |->
            OctreeNode(childPos(k - 1), node.size, node.depth + 1, node.maxDepth)]]

subdivide(node) ==
  LET halfSize == node.size \div 2
      childPos(i) ==
        << node.position[1] + (IF Bit(i, 1) THEN halfSize ELSE 0),
           node.position[2] + (IF Bit(i, 2) THEN halfSize ELSE 0),
           node.position[3] + (IF Bit(i, 4) THEN halfSize ELSE 0) >>
  IN  [node EXCEPT !.children =
         [k \in 1..CHILD_COUNT |->
            OctreeNode(childPos(k - 1), halfSize, node.depth + 1, node.maxDepth)]]

RECURSIVE getVoxel(_, _)
getVoxel(node, position) ==
  IF ~containsPoint(node, position) THEN Null
  ELSE IF node.depth = node.maxDepth \/ node.voxel # Null THEN node.voxel
  ELSE IF node.children # NoChildren
    THEN getVoxel(node.children[getChildIndexForPosition(node, position) + 1],
                  position)
  ELSE Null

\* setVoxel without the bounds check.
RECURSIVE setVoxelUnchecked(_, _, _)
setVoxelUnchecked(node, position, voxel) ==
  IF node.depth = node.maxDepth THEN [node EXCEPT !.voxel = voxel]
  ELSE
    LET n1 == IF node.children = NoChildren /\ voxel # Null
                THEN subdivide(node) ELSE node
        childIndex == getChildIndexForPosition(n1, position)
    IN  IF n1.children # NoChildren
          THEN [n1 EXCEPT !.children[childIndex + 1] =
                  setVoxelUnchecked(n1.children[childIndex + 1], position, voxel)]
          ELSE [n1 EXCEPT !.voxel = voxel]

\* The subdivision step placed before the leaf test.
RECURSIVE setVoxelSubdividesLeaf(_, _, _)
setVoxelSubdividesLeaf(node, position, voxel) ==
  IF ~containsPoint(node, position) THEN node
  ELSE
    LET n1 == IF node.children = NoChildren /\ voxel # Null
                THEN subdivide(node) ELSE node
        childIndex == getChildIndexForPosition(n1, position)
    IN  IF node.depth = node.maxDepth THEN [n1 EXCEPT !.voxel = voxel]
        ELSE IF n1.children # NoChildren
          THEN [n1 EXCEPT !.children[childIndex + 1] =
                  setVoxelSubdividesLeaf(n1.children[childIndex + 1], position, voxel)]
          ELSE [n1 EXCEPT !.voxel = voxel]

\* Subdivision whatever the voxel written, empty included.
RECURSIVE setVoxelEager(_, _, _)
setVoxelEager(node, position, voxel) ==
  IF ~containsPoint(node, position) THEN node
  ELSE IF node.depth = node.maxDepth THEN [node EXCEPT !.voxel = voxel]
  ELSE
    LET n1 == IF node.children = NoChildren THEN subdivide(node) ELSE node
        childIndex == getChildIndexForPosition(n1, position)
    IN  [n1 EXCEPT !.children[childIndex + 1] =
           setVoxelEager(n1.children[childIndex + 1], position, voxel)]

\* The voxel also stored in every node on the way down.
RECURSIVE setVoxelStaged(_, _, _)
setVoxelStaged(node, position, voxel) ==
  IF ~containsPoint(node, position) THEN node
  ELSE IF node.depth = node.maxDepth THEN [node EXCEPT !.voxel = voxel]
  ELSE
    LET n1 == IF node.children = NoChildren /\ voxel # Null
                THEN subdivide(node) ELSE node
        childIndex == getChildIndexForPosition(n1, position)
    IN  IF n1.children # NoChildren
          THEN [n1 EXCEPT !.voxel = voxel,
                          !.children[childIndex + 1] =
                            setVoxelStaged(n1.children[childIndex + 1], position, voxel)]
          ELSE [n1 EXCEPT !.voxel = voxel]

\* The child array dropped when an empty write leaves all children empty.
RECURSIVE setVoxelPruning(_, _, _)
setVoxelPruning(node, position, voxel) ==
  IF ~containsPoint(node, position) THEN node
  ELSE IF node.depth = node.maxDepth THEN [node EXCEPT !.voxel = voxel]
  ELSE
    LET n1 == IF node.children = NoChildren /\ voxel # Null
                THEN subdivide(node) ELSE node
        childIndex == getChildIndexForPosition(n1, position)
        n2 == [n1 EXCEPT !.children[childIndex + 1] =
                 setVoxelPruning(n1.children[childIndex + 1], position, voxel)]
    IN  IF n1.children # NoChildren
          THEN IF \A k \in 1..CHILD_COUNT :
                    n2.children[k].voxel = Null /\ n2.children[k].children = NoChildren
                 THEN [n2 EXCEPT !.children = NoChildren]
                 ELSE n2
          ELSE [n1 EXCEPT !.voxel = voxel]

RECURSIVE setVoxel(_, _, _)
setVoxel(node, position, voxel) ==
  IF ~containsPoint(node, position) THEN node
  ELSE IF node.depth = node.maxDepth THEN [node EXCEPT !.voxel = voxel]
  ELSE
    LET n1 == IF node.children = NoChildren /\ voxel # Null
                THEN subdivide(node) ELSE node
        childIndex == getChildIndexForPosition(n1, position)
    IN  IF n1.children # NoChildren
          THEN [n1 EXCEPT !.children[childIndex + 1] =
                            setVoxel(n1.children[childIndex + 1], position, voxel)]
          ELSE [n1 EXCEPT !.voxel = voxel]

\* The six neighbour offsets of hasExposedFaces, in source order.
offsets ==
  << <<1, 0, 0>>, <<-1, 0, 0>>, <<0, 1, 0>>, <<0, -1, 0>>, <<0, 0, 1>>, <<0, 0, -1>> >>

\* The neighbour test inverted: true as soon as a neighbour is found.
hasExposedFacesInverted(node, position) ==
  \E k \in 1..Len(offsets) :
    getVoxel(node, << position[1] + offsets[k][1],
                      position[2] + offsets[k][2],
                      position[3] + offsets[k][3] >>) # Null

\* The lookup is this.getVoxel: it is made on the node the method is called on.
hasExposedFaces(node, position) ==
  \E k \in 1..Len(offsets) :
    getVoxel(node, << position[1] + offsets[k][1],
                      position[2] + offsets[k][2],
                      position[3] + offsets[k][3] >>) = Null

\* The flag assigned to the voxel of every leaf below the node.
RECURSIVE updateVoxelActiveAll(_, _, _)
updateVoxelActiveAll(node, position, active) ==
  IF node.children # NoChildren
    THEN [node EXCEPT !.children =
            [k \in 1..Len(node.children) |->
               updateVoxelActiveAll(node.children[k], position, active)]]
  ELSE IF node.voxel # Null THEN [node EXCEPT !.voxel.active = active]
  ELSE node

\* node.updateVoxelActive(position, active): the voxel object that
\* node.getVoxel(position) returns gets its flag assigned in place.
RECURSIVE updateVoxelActive(_, _, _)
updateVoxelActive(node, position, active) ==
  IF ~containsPoint(node, position) THEN node
  ELSE IF node.depth = node.maxDepth \/ node.voxel # Null
    THEN IF node.voxel # Null
           THEN [node EXCEPT !.voxel.active = active]
           ELSE node
  ELSE IF node.children # NoChildren
    THEN LET childIndex == getChildIndexForPosition(node, position)
         IN  [node EXCEPT !.children[childIndex + 1] =
                updateVoxelActive(node.children[childIndex + 1], position, active)]
  ELSE node

\* Every node handed to the callback.
visitedAlways(node) == TRUE

\* The condition under which traverse hands a node to the callback.
visited(node) ==
  \/ node.depth = node.maxDepth
  \/ (node.voxel # Null /\ node.children = NoChildren)

RECURSIVE traverse(_)
RECURSIVE traverseFrom(_, _)
traverseFrom(children, k) ==
  IF k > Len(children) THEN << >>
  ELSE traverse(children[k]) \o traverseFrom(children, k + 1)

\* The nodes handed to the callback, in call order.
traverse(node) ==
  (IF visited(node) THEN << node >> ELSE << >>)
    \o traverseFrom(node.children, 1)

(* --------------------------- VoxelOctree ------------------------------ *)

VoxelOctree(size, maxDepth) ==
  OctreeNode(<< -(size \div 2), -(size \div 2), -(size \div 2) >>, size, 0, maxDepth)

\* Only the root's own slot is reset; the children stay.
clearSlotOnly(r) == [r EXCEPT !.voxel = Null]

\* The new root placed with its minimum corner at the origin.
clearAtOrigin(r) == OctreeNode(<<0, 0, 0>>, r.size, 0, r.maxDepth)

clear(r) == VoxelOctree(r.size, r.maxDepth)

getSize(r) == r.size

getMaxDepth(r) == r.maxDepth

\* The flag inverted instead of recomputed.
updateActiveCallbackToggle(node) ==
  IF getVoxel(node, node.position) # Null
    THEN [node EXCEPT !.voxel.active = ~node.voxel.active]
    ELSE node

\* The callback of updateActiveStates applied to one visited node: it reads
\* and writes through node.getVoxel(node.position), and node.position lies in
\* the node, so the voxel it reaches is node.voxel.
updateActiveCallback(node) ==
  IF getVoxel(node, node.position) # Null
    THEN [node EXCEPT !.voxel.active = hasExposedFaces(node, node.position)]
    ELSE node

\* traverse with the callback above, as the tree it leaves behind.
RECURSIVE updateActiveStates(_)
updateActiveStates(node) ==
  LET n1 == IF visited(node) THEN updateActiveCallback(node) ELSE node
  IN  [n1 EXCEPT !.children =
         [k \in 1..Len(node.children) |-> updateActiveStates(node.children[k])]]

Vertex(corner, color) == corner \o color

\* The +X face tested against the neighbour on the -X side.
facesWrongNeighbor(x, y, z, size) ==
  << [neighbor |-> <<x, y, z - 1>>,
      vertices |-> << <<x, y, z>>, <<x + size, y, z>>,
                      <<x + size, y + size, z>>, <<x, y + size, z>> >>],
     [neighbor |-> <<x, y, z + size>>,
      vertices |-> << <<x + size, y, z + size>>, <<x, y, z + size>>,
                      <<x, y + size, z + size>>, <<x + size, y + size, z + size>> >>],
     [neighbor |-> <<x, y + size, z>>,
      vertices |-> << <<x, y + size, z>>, <<x + size, y + size, z>>,
                      <<x + size, y + size, z + size>>, <<x, y + size, z + size>> >>],
     [neighbor |-> <<x, y - 1, z>>,
      vertices |-> << <<x, y, z + size>>, <<x + size, y, z + size>>,
                      <<x + size, y, z>>, <<x, y, z>> >>],
     [neighbor |-> <<x - 1, y, z>>,
      vertices |-> << <<x + size, y, z>>, <<x + size, y, z + size>>,
                      <<x + size, y + size, z + size>>, <<x + size, y + size, z>> >>],
     [neighbor |-> <<x - 1, y, z>>,
      vertices |-> << <<x, y, z + size>>, <<x, y, z>>,
                      <<x, y + size, z>>, <<x, y + size, z + size>> >>] >>

\* The six faces of getVertices in source order: the offset of the neighbour
\* that hides the face and the four corners, all relative to (x, y, z), for
\* a node of edge `size`.
faces(x, y, z, size) ==
  << [neighbor |-> <<x, y, z - 1>>,
      vertices |-> << <<x, y, z>>, <<x + size, y, z>>,
                      <<x + size, y + size, z>>, <<x, y + size, z>> >>],
     [neighbor |-> <<x, y, z + size>>,
      vertices |-> << <<x + size, y, z + size>>, <<x, y, z + size>>,
                      <<x, y + size, z + size>>, <<x + size, y + size, z + size>> >>],
     [neighbor |-> <<x, y + size, z>>,
      vertices |-> << <<x, y + size, z>>, <<x + size, y + size, z>>,
                      <<x + size, y + size, z + size>>, <<x, y + size, z + size>> >>],
     [neighbor |-> <<x, y - 1, z>>,
      vertices |-> << <<x, y, z + size>>, <<x + size, y, z + size>>,
                      <<x + size, y, z>>, <<x, y, z>> >>],
     [neighbor |-> <<x + size, y, z>>,
      vertices |-> << <<x + size, y, z>>, <<x + size, y, z + size>>,
                      <<x + size, y + size, z + size>>, <<x + size, y + size, z>> >>],
     [neighbor |-> <<x - 1, y, z>>,
      vertices |-> << <<x, y, z + size>>, <<x, y, z>>,
                      <<x, y + size, z>>, <<x, y + size, z + size>> >>] >>

\* The second triangle left out.
pushFaceOneTriangle(face, color) ==
  Vertex(face.vertices[1], color) \o Vertex(face.vertices[2], color)
    \o Vertex(face.vertices[3], color)

\* The second triangle taken from corners 1, 2, 3: a strip, not a fan.
pushFaceStrip(face, color) ==
  Vertex(face.vertices[1], color) \o Vertex(face.vertices[2], color)
    \o Vertex(face.vertices[3], color)
    \o Vertex(face.vertices[2], color) \o Vertex(face.vertices[3], color)
    \o Vertex(face.vertices[4], color)

\* The second triangle listed in the opposite rotation.
pushFaceReversedSecond(face, color) ==
  Vertex(face.vertices[1], color) \o Vertex(face.vertices[2], color)
    \o Vertex(face.vertices[3], color)
    \o Vertex(face.vertices[1], color) \o Vertex(face.vertices[4], color)
    \o Vertex(face.vertices[3], color)

\* The two vertices.push calls for one visible face.
pushFace(face, color) ==
  Vertex(face.vertices[1], color) \o Vertex(face.vertices[2], color)
    \o Vertex(face.vertices[3], color)
    \o Vertex(face.vertices[1], color) \o Vertex(face.vertices[3], color)
    \o Vertex(face.vertices[4], color)

RECURSIVE pushFaces(_, _, _, _)
pushFaces(r, fs, k, color) ==
  IF k > Len(fs) THEN << >>
  ELSE (IF getVoxel(r, fs[k].neighbor) = Null
          THEN pushFace(fs[k], color) ELSE << >>)
         \o pushFaces(r, fs, k + 1, color)

\* The callback without the test of voxel.active.
verticesCallbackUngated(r, node) ==
  LET voxel == getVoxel(node, node.position)
  IN  IF voxel # Null
        THEN pushFaces(r,
                       faces(node.position[1], node.position[2], node.position[3],
                             node.size),
                       1, voxel.color)
        ELSE << >>

\* The callback of getVertices on one visited node; face visibility is looked
\* up on the whole tree (this.getVoxel of VoxelOctree).
verticesCallback(r, node) ==
  LET voxel == getVoxel(node, node.position)
  IN  IF voxel # Null /\ voxel.active
        THEN pushFaces(r,
                       faces(node.position[1], node.position[2], node.position[3],
                             node.size),
                       1, voxel.color)
        ELSE << >>

RECURSIVE collectVertices(_, _, _)
collectVertices(r, nodes, k) ==
  IF k > Len(nodes) THEN << >>
  ELSE verticesCallback(r, nodes[k]) \o collectVertices(r, nodes, k + 1)

getVertices(r) == collectVertices(r, traverse(r), 1)

(* --------------------------- World ------------------------------------ *)
(* The entity-component store of core/ecs/world.ts.  `entities` is the Set  *)
(* of live ids as the sequence of its insertion order.  `components` gives, *)
(* for each component type string, the ids that have an entry in the inner  *)
(* map of that type; a type whose inner map was never created has no id,    *)
(* which is what ?.has, ?.get and ?.delete make of a missing map.  The      *)
(* component objects themselves, the systems and the log counters are left  *)
(* out.                                                                     *)

\* The type strings of TransformComponent, CameraComponent, VoxelComponent.
ComponentNames == {"Transform", "Camera", "Voxel"}

\* The number of createEntity calls explored.
MaxEntities == 2

\* Ids passed to the operations: those createEntity can return and one it
\* never returns.
EntityIds == 1..(MaxEntities + 1)

World ==
  [nextEntityId |-> 1,
   entities |-> << >>,
   components |-> [name \in ComponentNames |-> {}]]

\* Set.prototype.add on the insertion-ordered sequence.
SetAdd(seq, e) ==
  IF \E k \in 1..Len(seq) : seq[k] = e THEN seq ELSE Append(seq, e)

\* Set.prototype.delete on the insertion-ordered sequence.
SetDelete(seq, e) ==
  LET Keep(x) == x # e
  IN  SelectSeq(seq, Keep)

\* The world createEntity leaves; the id it returns is w.nextEntityId.
createEntity(w) ==
  [w EXCEPT !.nextEntityId = @ + 1,
            !.entities = SetAdd(@, w.nextEntityId)]

\* The id handed back to the counter.
destroyEntityRecycling(w, entity) ==
  [w EXCEPT !.nextEntityId = entity,
            !.entities = SetDelete(@, entity),
            !.components = [name \in ComponentNames |-> @[name] \ {entity}]]

destroyEntity(w, entity) ==
  [w EXCEPT !.entities = SetDelete(@, entity),
            !.components = [name \in ComponentNames |-> @[name] \ {entity}]]

\* componentName is component.type.
addComponent(w, entity, componentName) ==
  [w EXCEPT !.components[componentName] = @ \cup {entity}]

removeComponent(w, entity, componentName) ==
  [w EXCEPT !.components[componentName] = @ \ {entity}]

\* `some` in place of `every`.
getEntitiesWithSome(w, componentNames) ==
  LET Has(entity) ==
        \E name \in componentNames : entity \in w.components[name]
  IN  SelectSeq(w.entities, Has)

\* The array returned for the given type strings.
getEntitiesWith(w, componentNames) ==
  LET Has(entity) ==
        \A name \in componentNames : entity \in w.components[name]
  IN  SelectSeq(w.entities, Has)

(* --------------------------- WebGPURenderer --------------------------- *)
(* The renderer of core/renderer/webgpu.ts, as far as its calls decide what *)
(* is drawn.  device, context and pipeline are TRUE when the field is not   *)
(* null; uniformBuffer, bindGroup and depthTexture are set in the same      *)
(* synchronous stretch as pipeline and are left out, as are the frame       *)
(* counters.  `vertexBuffers` is the Map from octree to GPUBuffer as the    *)
(* sequence of its buffers, each [size |-> bytes]; one octree is rendered,  *)
(* so it has at most one entry.  `initialize` counts, for each await of the *)
(* async initialize(), the calls that are waiting there: initialize() tests *)
(* no field of the renderer, so calls may overlap and follow a dispose().   *)
(* `calls`, `completed` and `disposed` are not fields of the source: the    *)
(* initialize() calls made, those that have completed, and whether          *)
(* dispose() was called.                                                    *)

\* Most initialize() calls looked at.
MaxInitialize == 2

\* Float32Array.BYTES_PER_ELEMENT
BYTES_PER_ELEMENT == 4

\* arrayStride of the vertex buffer layout: bytes read per vertex drawn.
ARRAY_STRIDE == 28

WebGPURenderer ==
  [device |-> FALSE, context |-> FALSE, pipeline |-> FALSE,
   vertexBuffers |-> << >>,
   initialize |-> [requestAdapter |-> 0, requestDevice |-> 0,
                   createPipeline |-> 0],
   calls |-> 0, completed |-> 0, disposed |-> FALSE]

updateVoxelData(r, octree) ==
  IF ~r.device THEN r
  ELSE
    LET vertices == getVertices(octree)
        bufferSize == Len(vertices) * BYTES_PER_ELEMENT
    IN  IF Len(vertices) = 0 THEN [r EXCEPT !.vertexBuffers = << >>]
        ELSE IF r.vertexBuffers = << >> \/ r.vertexBuffers[1].size < bufferSize
          THEN [r EXCEPT !.vertexBuffers = << [size |-> bufferSize] >>]
          ELSE r

\* What one render() call hands to the GPU: `gpu` tells whether it got past
\* its guard and submitted a pass, `draws` are its draw calls, each with the
\* vertex count drawn and the size of the vertex buffer bound for it.
render(r, octree) ==
  IF ~r.device \/ ~r.context \/ ~r.pipeline
    THEN [gpu |-> FALSE, draws |-> << >>]
    ELSE
      LET vertices == getVertices(octree)
      IN  [gpu |-> TRUE,
           draws |-> IF Len(vertices) > 0
                       THEN [k \in 1..Len(r.vertexBuffers) |->
                               [count |-> Len(vertices) \div 7,
                                bufferSize |-> r.vertexBuffers[k].size]]
                       ELSE << >>]

disposeRenderer(r) ==
  [r EXCEPT !.vertexBuffers = << >>, !.pipeline = FALSE, !.context = FALSE,
            !.device = FALSE, !.disposed = TRUE]

(* --------------------------- SampleScene ------------------------------ *)
(* The scene of examples/sample-scene.ts and the browser's list of          *)
(* animation-frame requests.  `animationFrameId` is 0 for null, the handles *)
(* of requestAnimationFrame being positive.  `initialized` and `ran` are    *)
(* not fields of the source: `initialized` counts the initialize() calls of *)
(* the scene that have run on after the renderer's, `ran` collects the      *)
(* calls made since dispose() first ran, "dispose" standing for that first  *)
(* run.  `frames.pending` are the handles whose callback the browser has    *)
(* still to fire, `frames.next` the handle the next request gets.           *)
(* The scene's octree is new VoxelOctree(32, 5); here it has SceneDepth     *)
(* levels and the size 2^SceneDepth, and the terrain of createSampleVoxels  *)
(* is cut to that volume.                                                   *)

\* Levels of the scene's octree looked at (5 in the source).
SceneDepth == 1

SceneSize == 2 ^ SceneDepth

\* Most requestAnimationFrame calls looked at.
MaxFrames == 3

SampleScene ==
  [isDisposed |-> FALSE, animationFrameId |-> 0, initialized |-> 0,
   ran |-> {}]

NoFrames == [pending |-> {}, next |-> 1]

requestAnimationFrame(fr) ==
  [pending |-> fr.pending \cup {fr.next}, next |-> fr.next + 1]

cancelAnimationFrame(fr, handle) == [fr EXCEPT !.pending = @ \ {handle}]

\* The check `animate` always lets pass.
animateReturnsNever(sc) == FALSE

\* The check at the head of the `animate` callback of start().
animateReturns(sc) == sc.isDisposed

\* update() never returns: with a camera entity CameraSystem.update reads
\* camera.targetRotation, which CameraComponent does not have, and vec3.lerp
\* throws; without one update() itself reads the rotation of an undefined
\* transform.
updateThrows(w) ==
  IF getEntitiesWith(w, {"Transform", "Camera"}) # << >> THEN TRUE ELSE TRUE

\* Math.sin(x * 0.3) * 4 for x = -16 .. 15, in millionths, rounded down.
SinTimes4 ==
  <<3984658, 3910120, 3486303, 2751064, 1770081, 630982, -564481, -1709520,
     -2701853, -3452838, -3895391, -3989980, -3728157, -3133308, -2258570,
     -1182081, 0, 1182080, 2258569, 3133307, 3728156, 3989979, 3895390,
     3452837, 2701852, 1709519, 564480, -630983, -1770082, -2751065,
     -3486304, -3910121 >>

\* Math.cos(z * 0.3) * 4 for z = -16 .. 15, in millionths, rounded down.
CosTimes4 ==
  <<349995, -843184, -1961044, -2903730, -3587034, -3949920, -3959970,
     -3616289, -2949575, -2019385, -908809, 282948, 1449431, 2486439,
     3301342, 3821345, 4000000, 3821345, 3301342, 2486439, 1449431, 282948,
     -908809, -2019385, -2949575, -3616289, -3959970, -3949920, -3587034,
     -2903730, -1961044, -843184 >>

\* Math.floor(Math.sin(x * 0.3) * 4 + Math.cos(z * 0.3) * 4 + 4), for x and z
\* in -16 .. 15, the columns of the source's terrain.
TerrainHeight(x, z) ==
  (SinTimes4[x + 17] + CosTimes4[z + 17] + 4 * 1000000) \div 1000000

\* The voxel createSampleVoxels writes: it has no `active` field, which reads
\* as false.  The colour is random in the source.
SampleVoxel == [material |-> 1, color |-> <<0, 1, 0, 1>>, active |-> FALSE]

\* The positions createSampleVoxels writes, those outside the volume left out.
SampleColumns ==
  LET half == SceneSize \div 2
      lowest == IF -2 < -half THEN -half ELSE -2
  IN  { <<x, y, z>> \in ((-half)..(half - 1)) \X (lowest..(half - 1))
                                            \X ((-half)..(half - 1)) :
          y <= TerrainHeight(x, z) }

\* The writes of createSampleVoxels, one after the other.  setVoxel keeps
\* the size of the octree: the comparison holds always and has each write
\* evaluated before the next.
RECURSIVE setVoxels(_, _)
setVoxels(r, positions) ==
  IF positions = {} THEN r
  ELSE LET p == CHOOSE q \in positions : TRUE
           written == setVoxel(r, p, SampleVoxel)
       IN  IF written.size = r.size
             THEN setVoxels(written, positions \ {p})
             ELSE r

createSampleVoxels(r) == setVoxels(r, SampleColumns)

\* The loop of dispose() over world.getEntitiesWith().
RECURSIVE destroyEntities(_, _)
destroyEntities(w, entities) ==
  IF entities = << >> THEN w
  ELSE destroyEntities(destroyEntity(w, Head(entities)), Tail(entities))

\* What the calls after dispose() add to `ran`.
Ran(sc, op) == IF sc.ran = {} THEN {} ELSE sc.ran \cup {op}

(* --------------------------- operations ------------------------------- *)

\* `call` is the last call made on the tree, with its arguments.
\* The record of what the calls on the world did, kept beside the world:
\* the ids createEntity returned, in order; the ids created and not
\* destroyed since; the (id, type) pairs with a component added and neither
\* removed nor dropped by a destroyEntity since.
NoHistory == [returned |-> << >>, live |-> {}, attached |-> {}]

\* A world and a renderer nothing was done to, and no flat map kept.
NoWorld ==
  /\ world = World
  /\ ledger = NoHistory
  /\ reference = {}
  /\ renderer = WebGPURenderer
  /\ scene = SampleScene
  /\ frames = NoFrames

Init ==
  /\ \E c \in Configs : root = VoxelOctree(c.size, c.maxDepth)
  /\ call = [op |-> "constructor"]
  /\ NoWorld

SetVoxel(p, v) ==
  /\ root' = setVoxel(root, p, v)
  /\ call' = [op |-> "setVoxel", position |-> p, voxel |-> v]
  /\ UNCHANGED outsideOctree

\* A visited node's updateVoxelActive, or an assignment to the flag of the
\* object getVoxel(p) returned: the stored voxel at p gets the flag.
\* `before` is the tree as it was when the call was made.
UpdateVoxelActive(p, active) ==
  /\ root' = updateVoxelActive(root, p, active)
  /\ call' = [op |-> "updateVoxelActive", position |-> p, active |-> active,
              before |-> root]
  /\ UNCHANGED outsideOctree

\* `result` is what the call returned.
GetVoxel(p) ==
  /\ call' = [op |-> "getVoxel", position |-> p, result |-> getVoxel(root, p)]
  /\ UNCHANGED root
  /\ UNCHANGED outsideOctree

\* `visits` are the nodes the callback was called with, in order.
Traverse ==
  /\ call' = [op |-> "traverse", visits |-> traverse(root)]
  /\ UNCHANGED root
  /\ UNCHANGED outsideOctree

UpdateActiveStates ==
  /\ root' = updateActiveStates(root)
  /\ call' = [op |-> "updateActiveStates"]
  /\ UNCHANGED outsideOctree

\* `before` is the root that clear() replaces.
Clear ==
  /\ root' = clear(root)
  /\ call' = [op |-> "clear", before |-> root]
  /\ UNCHANGED outsideOctree

GetVertices ==
  /\ call' = [op |-> "getVertices"]
  /\ UNCHANGED root
  /\ UNCHANGED outsideOctree

Next ==
  \/ \E p \in Positions, v \in Voxels \cup {Null} : SetVoxel(p, v)
  \/ \E p \in Positions : GetVoxel(p)
  \/ Traverse
  \/ \E p \in Positions, active \in BOOLEAN : UpdateVoxelActive(p, active)
  \/ UpdateActiveStates
  \/ Clear
  \/ GetVertices

Spec == Init /\ [][Next]_vars

\* Populating the 4 x 4 x 4 unit grid, recomputing the flags and extracting.
Init4 ==
  /\ \E c \in Configs4 : root = VoxelOctree(c.size, c.maxDepth)
  /\ call = [op |-> "constructor"]
  /\ NoWorld

Next4 ==
  \/ \E p \in Positions4, v \in Voxels4 \cup {Null} : SetVoxel(p, v)
  \/ \E p \in Positions4 : GetVoxel(p)
  \/ Traverse
  \/ UpdateActiveStates
  \/ Clear
  \/ GetVertices

Spec4 == Init4 /\ [][Next4]_vars

\* The operations of a world, on ids created or not.
InitWorld ==
  /\ root = VoxelOctree(2, 0)
  /\ call = [op |-> "constructor"]
  /\ NoWorld

CreateEntity ==
  /\ world.nextEntityId <= MaxEntities
  /\ world' = createEntity(world)
  /\ call' = [op |-> "createEntity", result |-> world.nextEntityId]
  /\ ledger' = [ledger EXCEPT !.returned = Append(@, world.nextEntityId),
                              !.live = @ \cup {world.nextEntityId}]
  /\ UNCHANGED outsideWorld

DestroyEntity(entity) ==
  /\ world' = destroyEntity(world, entity)
  /\ call' = [op |-> "destroyEntity", entity |-> entity]
  /\ ledger' = [ledger EXCEPT !.live = @ \ {entity},
                              !.attached = { x \in @ : x[1] # entity }]
  /\ UNCHANGED outsideWorld

AddComponent(entity, name) ==
  /\ world' = addComponent(world, entity, name)
  /\ call' = [op |-> "addComponent", entity |-> entity, name |-> name]
  /\ ledger' = [ledger EXCEPT !.attached = @ \cup {<<entity, name>>}]
  /\ UNCHANGED outsideWorld

RemoveComponent(entity, name) ==
  /\ world' = removeComponent(world, entity, name)
  /\ call' = [op |-> "removeComponent", entity |-> entity, name |-> name]
  /\ ledger' = [ledger EXCEPT !.attached = @ \ {<<entity, name>>}]
  /\ UNCHANGED outsideWorld

GetEntitiesWith(names) ==
  /\ call' = [op |-> "getEntitiesWith", names |-> names,
              result |-> getEntitiesWith(world, names)]
  /\ UNCHANGED <<world, ledger>>
  /\ UNCHANGED outsideWorld

\* The two types RenderSystem.update queries together.
QueriedNames == {"Transform", "Camera"}

NextWorld ==
  \/ CreateEntity
  \/ \E entity \in EntityIds : DestroyEntity(entity)
  \/ \E entity \in EntityIds, name \in QueriedNames : AddComponent(entity, name)
  \/ \E entity \in EntityIds, name \in QueriedNames : RemoveComponent(entity, name)
  \/ \E names \in SUBSET QueriedNames : GetEntitiesWith(names)

SpecWorld == InitWorld /\ [][NextWorld]_vars


\* The unit grids of 2 x 2 x 2 and 4 x 4 x 4 cells.
ConfigsUnit ==
  { [size |-> 2, maxDepth |-> 1], [size |-> 4, maxDepth |-> 2] }

\* A flat position -> voxel map, as its set of <<position, voxel>> entries,
\* written and cleared beside the tree: an empty write deletes the entry.
MapWrite(map, p, v) ==
  { e \in map : e[1] # p } \cup (IF v = Null THEN {} ELSE { <<p, v>> })

MapLookup(map, p) ==
  IF \E e \in map : e[1] = p
    THEN (CHOOSE e \in map : e[1] = p)[2]
    ELSE Null

\* setVoxel and clear on a unit grid, with the flat map kept beside the tree;
\* only writes inside the volume reach the map.
InitRef ==
  /\ \E c \in ConfigsUnit : root = VoxelOctree(c.size, c.maxDepth)
  /\ call = [op |-> "constructor"]
  /\ NoWorld

SetVoxelRef(p, v) ==
  /\ root' = setVoxel(root, p, v)
  /\ call' = [op |-> "setVoxel", position |-> p, voxel |-> v]
  /\ reference' = IF \A i \in 1..3 :
                       /\ root.position[i] <= p[i]
                       /\ p[i] < root.position[i] + root.size
                    THEN MapWrite(reference, p, v)
                    ELSE reference
  /\ UNCHANGED <<world, ledger, renderer, scene, frames>>

ClearRef ==
  /\ root' = clear(root)
  /\ call' = [op |-> "clear", before |-> root]
  /\ reference' = {}
  /\ UNCHANGED <<world, ledger, renderer, scene, frames>>

NextRef ==
  \/ \E p \in Positions, v \in Voxels \cup {Null} : SetVoxelRef(p, v)
  \/ ClearRef

SpecRef == InitRef /\ [][NextRef]_vars

\* Writes to one octree, the steps of initialize(), updateVoxelData of that
\* octree, render() and dispose(), in any order.
Positions2 == { <<0, 0, 0>>, <<-1, 0, 0>> }

InitRenderer ==
  /\ root = VoxelOctree(2, 1)
  /\ call = [op |-> "constructor"]
  /\ NoWorld

\* initialize() up to its first await, navigator.gpu being there.
Initialize ==
  /\ renderer.calls < MaxInitialize
  /\ renderer' = [renderer EXCEPT !.initialize.requestAdapter = @ + 1,
                                  !.calls = @ + 1]
  /\ call' = [op |-> "initialize"]
  /\ UNCHANGED outsideRenderer

\* requestAdapter() resolved with an adapter; requestDevice() is awaited.
AdapterResolved ==
  /\ renderer.initialize.requestAdapter > 0
  /\ renderer' = [renderer EXCEPT !.initialize.requestAdapter = @ - 1,
                                  !.initialize.requestDevice = @ + 1]
  /\ call' = [op |-> "initialize"]
  /\ UNCHANGED outsideRenderer

\* requestDevice() resolved: initialize() runs on to `await
\* this.createPipeline(..)`, createPipeline having set the pipeline.  With no
\* "webgpu" context it throws after setting device and context.
DeviceResolved(hasContext) ==
  /\ renderer.initialize.requestDevice > 0
  /\ renderer' = [renderer EXCEPT !.device = TRUE,
                                  !.context = hasContext,
                                  !.pipeline = IF hasContext THEN TRUE ELSE @,
                                  !.initialize.requestDevice = @ - 1,
                                  !.initialize.createPipeline =
                                    IF hasContext THEN @ + 1 ELSE @]
  /\ call' = [op |-> "initialize"]
  /\ UNCHANGED outsideRenderer

\* The await of createPipeline() is over: initialize() completes.
InitializeCompleted ==
  /\ renderer.initialize.createPipeline > 0
  /\ renderer' = [renderer EXCEPT !.initialize.createPipeline = @ - 1,
                                  !.completed = @ + 1]
  /\ call' = [op |-> "initialize"]
  /\ UNCHANGED outsideRenderer

UpdateVoxelData ==
  /\ renderer' = updateVoxelData(renderer, root)
  /\ call' = [op |-> "updateVoxelData"]
  /\ UNCHANGED outsideRenderer

\* `result` is what the call handed to the GPU.
Render ==
  /\ call' = [op |-> "render", result |-> render(renderer, root)]
  /\ UNCHANGED renderer
  /\ UNCHANGED outsideRenderer

DisposeRenderer ==
  /\ renderer' = disposeRenderer(renderer)
  /\ call' = [op |-> "dispose"]
  /\ UNCHANGED outsideRenderer

NextRenderer ==
  \/ \E p \in Positions2, v \in Voxels4 \cup {Null} : SetVoxel(p, v)
  \/ Initialize
  \/ AdapterResolved
  \/ \E hasContext \in BOOLEAN : DeviceResolved(hasContext)
  \/ InitializeCompleted
  \/ UpdateVoxelData
  \/ Render
  \/ DisposeRenderer

SpecRenderer == InitRenderer /\ [][NextRenderer]_vars

\* The scene from its constructor on: initialize() with the renderer's
\* steps, start(), the callbacks the browser fires, and dispose(), which is
\* also the beforeunload listener.
InitScene ==
  /\ root = createSampleVoxels(VoxelOctree(SceneSize, SceneDepth))
  /\ call = [op |-> "constructor"]
  /\ world = LET cameraEntity == World.nextEntityId
             IN  addComponent(addComponent(createEntity(World),
                                           cameraEntity, "Transform"),
                              cameraEntity, "Camera")
  /\ ledger = NoHistory
  /\ reference = {}
  /\ renderer = WebGPURenderer
  /\ scene = SampleScene
  /\ frames = NoFrames

\* initialize() after `await this.renderer.initialize()`.
Initialized ==
  /\ scene.initialized < renderer.completed
  /\ renderer' = updateVoxelData(renderer, root)
  /\ scene' = [scene EXCEPT !.initialized = @ + 1]
  /\ call' = [op |-> "initialized"]
  /\ UNCHANGED <<root, world, ledger, reference, frames>>

Start ==
  /\ scene.isDisposed \/ frames.next <= MaxFrames
  /\ IF scene.isDisposed
       THEN /\ scene' = [scene EXCEPT !.ran = Ran(scene, "start")]
            /\ frames' = frames
       ELSE /\ scene' = [scene EXCEPT !.animationFrameId = frames.next]
            /\ frames' = requestAnimationFrame(frames)
  /\ call' = [op |-> "start"]
  /\ UNCHANGED <<root, world, ledger, reference, renderer>>

\* The browser fires the callback of request `handle`.  `updated` tells that
\* update() was called; when update() throws, the callback ends there and
\* requests no frame.
Animate(handle) ==
  /\ handle \in frames.pending
  /\ LET fired == cancelAnimationFrame(frames, handle)
     IN  IF animateReturns(scene)
           THEN /\ frames' = fired
                /\ scene' = [scene EXCEPT !.ran = Ran(scene, "animate")]
                /\ call' = [op |-> "animate", updated |-> FALSE]
           ELSE IF updateThrows(world)
             THEN /\ frames' = fired
                  /\ scene' = [scene EXCEPT !.ran = Ran(scene, "animate")]
                  /\ call' = [op |-> "animate", updated |-> TRUE]
             ELSE /\ fired.next <= MaxFrames
                  /\ frames' = requestAnimationFrame(fired)
                  /\ scene' = [scene EXCEPT !.animationFrameId = fired.next,
                                            !.ran = Ran(scene, "animate")]
                  /\ call' = [op |-> "animate", updated |-> TRUE,
                              result |-> render(renderer, root)]
  /\ UNCHANGED <<root, world, ledger, reference, renderer>>

Dispose ==
  /\ IF scene.isDisposed
       THEN /\ scene' = [scene EXCEPT !.ran = @ \cup {"again"}]
            /\ UNCHANGED <<root, world, renderer, frames>>
       ELSE /\ scene' = [scene EXCEPT !.isDisposed = TRUE,
                                      !.animationFrameId = 0,
                                      !.ran = {"dispose"}]
            /\ frames' = IF scene.animationFrameId # 0
                           THEN cancelAnimationFrame(frames,
                                                     scene.animationFrameId)
                           ELSE frames
            /\ renderer' = disposeRenderer(renderer)
            /\ world' = destroyEntities(world, getEntitiesWith(world, {}))
            /\ root' = clear(root)
  /\ call' = [op |-> "dispose"]
  /\ UNCHANGED <<ledger, reference>>

NextScene ==
  \/ Initialize
  \/ AdapterResolved
  \/ \E hasContext \in BOOLEAN : DeviceResolved(hasContext)
  \/ InitializeCompleted
  \/ Initialized
  \/ Start
  \/ \E handle \in 1..MaxFrames : Animate(handle)
  \/ Dispose

SpecScene == InitScene /\ [][NextScene]_vars

(* --------------------------- properties ------------------------------- *)

\* The half-open volume [position, position + size) of the tree r.
InVolume(r, p) ==
  \A i \in 1..3 : r.position[i] <= p[i] /\ p[i] < r.position[i] + r.size

\* The integer positions of the volume of r.
Cells(r) ==
  LET axis(i) == r.position[i] .. (r.position[i] + r.size - 1)
  IN  { <<x, y, z>> : x \in axis(1), y \in axis(2), z \in axis(3) }

\* One voxel per unit: size / 2^maxDepth = 1.
UnitGranularity(r) == r.size = 2 ^ r.maxDepth

UnitSteps ==
  { <<1, 0, 0>>, <<-1, 0, 0>>, <<0, 1, 0>>, <<0, -1, 0>>, <<0, 0, 1>>, <<0, 0, -1>> }

Plus(p, d) == << p[1] + d[1], p[2] + d[2], p[3] + d[3] >>

RECURSIVE CountNodes(_)
RECURSIVE CountFrom(_, _)
CountFrom(children, k) ==
  IF k > Len(children) THEN 0
  ELSE CountNodes(children[k]) + CountFrom(children, k + 1)

CountNodes(node) == 1 + CountFrom(node.children, 1)

\* The nodes traverse hands out, as a set.
VisitedNodes(r) ==
  LET nodes == traverse(r)
  IN  { nodes[k] : k \in 1..Len(nodes) }

\* C1: after setVoxel(p, v) with p inside the root volume, getVoxel(p) is v.
RoundTrip ==
  (call.op = "setVoxel" /\ InVolume(root, call.position))
    => getVoxel(root, call.position) = call.voxel

RoundTripWitness ==
  /\ call.op = "setVoxel"
  /\ InVolume(root, call.position)
  /\ call.voxel # Null
  /\ root.maxDepth >= 1
  /\ getVoxel(root, call.position) = call.voxel

\* C2: setVoxel(p, v) with p outside the root volume changes the answer of
\* getVoxel for no position of the volume and allocates no node.
OutOfBoundsNoOp ==
  [][(call'.op = "setVoxel" /\ ~InVolume(root, call'.position))
       => /\ \A q \in Cells(root) : getVoxel(root', q) = getVoxel(root, q)
          /\ CountNodes(root') = CountNodes(root)]_vars

OutOfBoundsWitness ==
  /\ call.op = "setVoxel"
  /\ ~InVolume(root, call.position)
  /\ call.voxel # Null
  /\ \E q \in Cells(root) : getVoxel(root, q) # Null
  /\ \E q \in Cells(root) : getVoxel(root, q) = Null

\* C3: on a unit-granularity tree, a stored voxel whose six neighbours all
\* hold a voxel in the tree has hasExposedFaces = false on the node storing it.
EnclosedNotExposed ==
  UnitGranularity(root) =>
    \A node \in VisitedNodes(root) :
      (/\ node.voxel # Null
       /\ \A d \in UnitSteps : getVoxel(root, Plus(node.position, d)) # Null)
        => ~hasExposedFaces(node, node.position)

\* C4: a stored voxel at p with at least one neighbour position holding no
\* voxel in the tree has hasExposedFaces(p) = true on the node storing it.
ExposedIsExposed ==
  \A node \in VisitedNodes(root) :
    \A p \in Cells(root) :
      (/\ containsPoint(node, p)
       /\ node.voxel # Null
       /\ \E d \in UnitSteps : getVoxel(root, Plus(p, d)) = Null)
        => hasExposedFaces(node, p)

\* A stored voxel with an occupied and an empty neighbour.
ExposedWitness ==
  \E node \in VisitedNodes(root) :
    /\ node.voxel # Null
    /\ \E d \in UnitSteps : getVoxel(root, Plus(node.position, d)) = Null
    /\ \E d \in UnitSteps : getVoxel(root, Plus(node.position, d)) # Null
    /\ hasExposedFaces(node, node.position)

\* C5: after updateActiveStates() on a unit-granularity tree, a stored voxel
\* is active exactly when one of its six neighbour positions holds no voxel.
ActiveIffExposed ==
  (call.op = "updateActiveStates" /\ UnitGranularity(root)) =>
    \A p \in Cells(root) :
      getVoxel(root, p) # Null =>
        (getVoxel(root, p).active
           <=> \E d \in UnitSteps : getVoxel(root, Plus(p, d)) = Null)

\* C6: after clear(), getVoxel is empty at every position and getVertices()
\* has length 0.
AfterClear ==
  call.op = "clear" =>
    /\ \A p \in Cells(root) \cup Positions \cup Positions4 : getVoxel(root, p) = Null
    /\ Len(getVertices(root)) = 0

\* clear() has replaced a root that held an active voxel.
AfterClearWitness ==
  /\ call.op = "clear"
  /\ Len(getVertices(call.before)) > 0
  /\ \E p \in Cells(root) : getVoxel(call.before, p) # Null
  /\ Len(getVertices(root)) = 0

FLOATS_PER_VERTEX == 7

VERTICES_PER_FACE == 6

FLOATS_PER_FACE == FLOATS_PER_VERTEX * VERTICES_PER_FACE

\* The buffer cut into runs of 42 floats, one per emitted face.
Chunks(buf) ==
  [i \in 1..(Len(buf) \div FLOATS_PER_FACE) |->
     SubSeq(buf, FLOATS_PER_FACE * (i - 1) + 1, FLOATS_PER_FACE * i)]

\* The positions of the six vertices of a run.
ChunkCorners(chunk) ==
  { << chunk[FLOATS_PER_VERTEX * j + 1], chunk[FLOATS_PER_VERTEX * j + 2],
       chunk[FLOATS_PER_VERTEX * j + 3] >> : j \in 0..(VERTICES_PER_FACE - 1) }

\* The four corners of the face in direction d of the cube of edge `size`
\* whose minimum corner is p.
FaceCorners(p, size, d) ==
  { Plus(p, c) : c \in { c \in [1..3 -> {0, size}] :
                           \A i \in 1..3 : /\ d[i] = 1 => c[i] = size
                                           /\ d[i] = -1 => c[i] = 0 } }

\* The faces a buffer holds, each as its set of corners.
EmittedFaces(buf) ==
  LET chunks == Chunks(buf)
  IN  { ChunkCorners(chunks[i]) : i \in 1..Len(chunks) }

\* The buffer holds the face in direction d of the unit cube at p.
Emits(buf, p, d) == FaceCorners(p, 1, d) \in EmittedFaces(buf)

\* The (voxel, direction) pairs whose face is due.
DueFaces(r) ==
  { pd \in Cells(r) \X UnitSteps :
      /\ getVoxel(r, pd[1]) # Null
      /\ getVoxel(r, pd[1]).active
      /\ getVoxel(r, Plus(pd[1], pd[2])) = Null }

\* C7: on a unit-granularity tree getVertices() holds the face of the stored
\* voxel at p in direction d exactly when the voxel is active and
\* getVoxel(p + d) is empty, and has 42 floats per such pair.
FaceCulling ==
  UnitGranularity(root) =>
    LET buf == getVertices(root)
        emitted == EmittedFaces(buf)
        due == DueFaces(root)
    IN  /\ \A p \in Cells(root), d \in UnitSteps :
             getVoxel(root, p) # Null =>
               (FaceCorners(p, 1, d) \in emitted <=> <<p, d>> \in due)
        /\ Len(buf) = FLOATS_PER_FACE * Cardinality(due)

\* Two adjacent stored voxels, one active and one not.
FaceCullingWitness ==
  /\ UnitGranularity(root)
  /\ call.op = "getVertices"
  /\ \E p \in Cells(root), d \in UnitSteps :
       /\ getVoxel(root, p) # Null /\ getVoxel(root, p).active
       /\ getVoxel(root, Plus(p, d)) # Null /\ ~getVoxel(root, Plus(p, d)).active
       /\ ~Emits(getVertices(root), p, d)
       /\ \E e \in UnitSteps : Emits(getVertices(root), p, e)

\* The faces of the cube of a node, each as its set of corners.
CubeFaces(node) ==
  { FaceCorners(node.position, node.size, d) : d \in UnitSteps }

\* Every face of the buffer is a face of the cube of a stored, active voxel.
OnlyActiveEmit ==
  EmittedFaces(getVertices(root)) \subseteq
    UNION { CubeFaces(node) :
              node \in { n \in VisitedNodes(root) :
                           n.voxel # Null /\ n.voxel.active } }

\* Setting to false the flag of a stored voxel that had faces in the buffer
\* removes exactly the faces of its cube from the buffer.
GatingStep ==
  (call.op = "updateVoxelActive" /\ ~call.active) =>
    LET before == Chunks(getVertices(call.before))
        after == Chunks(getVertices(root))
        own == UNION { CubeFaces(node) :
                         node \in { n \in VisitedNodes(call.before) :
                                      /\ containsPoint(n, call.position)
                                      /\ n.voxel # Null } }
        Other(chunk) == ChunkCorners(chunk) \notin own
    IN  (\E i \in 1..Len(before) : ~Other(before[i]))
          => /\ after = SelectSeq(before, Other)
             /\ Len(after) < Len(before)

\* C8: getVertices() emits geometry only for stored voxels whose active flag
\* is true, and setting the flag of a voxel that contributed faces to false
\* removes its faces from the buffer and leaves the other faces as they were.
ActiveGating == OnlyActiveEmit /\ GatingStep

\* An active voxel with faces in the buffer was set inactive while another
\* voxel keeps faces in the buffer.
ActiveGatingWitness ==
  /\ call.op = "updateVoxelActive"
  /\ ~call.active
  /\ getVoxel(call.before, call.position) # Null
  /\ getVoxel(call.before, call.position).active
  /\ ~getVoxel(root, call.position).active
  /\ Len(getVertices(root)) > 0
  /\ Len(getVertices(root)) < Len(getVertices(call.before))

\* The positions of the volume that hold a voxel.
Stored(r) == { p \in Cells(r) : getVoxel(r, p) # Null }

\* C9: size 4, maxDepth 2, active voxels at (0,0,0) and (1,0,0), after
\* updateActiveStates(): getVertices() holds neither voxel's face towards
\* the other, the 5 other faces of each, and 420 floats.
TwoVoxelScenario ==
  (/\ root.size = 4 /\ root.maxDepth = 2
   /\ call.op = "updateActiveStates"
   /\ Stored(root) = { <<0, 0, 0>>, <<1, 0, 0>> })
    => LET buf == getVertices(root)
       IN  /\ ~Emits(buf, <<0, 0, 0>>, <<1, 0, 0>>)
           /\ ~Emits(buf, <<1, 0, 0>>, <<-1, 0, 0>>)
           /\ \A d \in UnitSteps \ { <<1, 0, 0>> } : Emits(buf, <<0, 0, 0>>, d)
           /\ \A d \in UnitSteps \ { <<-1, 0, 0>> } : Emits(buf, <<1, 0, 0>>, d)
           /\ Len(Chunks(buf)) = 10
           /\ Len(buf) = 420

TwoVoxelWitness ==
  /\ root.size = 4 /\ root.maxDepth = 2
  /\ call.op = "updateActiveStates"
  /\ Stored(root) = { <<0, 0, 0>>, <<1, 0, 0>> }
  /\ Len(getVertices(root)) = 420

\* C10: a unit-granularity tree holding exactly one stored voxel, which is
\* active, has a getVertices() of 6 faces = 36 vertices = 252 floats.
IsolatedVoxel ==
  (/\ UnitGranularity(root)
   /\ Cardinality(Stored(root)) = 1
   /\ \A p \in Stored(root) : getVoxel(root, p).active)
    => /\ Len(getVertices(root)) = 252
       /\ Cardinality(EmittedFaces(getVertices(root))) = 6

\* The single voxel lies on the boundary of the volume.
IsolatedVoxelWitness ==
  /\ UnitGranularity(root)
  /\ call.op = "getVertices"
  /\ \E p \in Cells(root) :
       /\ Stored(root) = {p}
       /\ getVoxel(root, p).active
       /\ \E d \in UnitSteps : ~InVolume(root, Plus(p, d))
  /\ Len(getVertices(root)) = 252

\* Every node of the tree r, internal nodes included.
RECURSIVE AllNodes(_)
AllNodes(node) ==
  {node} \cup UNION { AllNodes(node.children[k]) : k \in 1..Len(node.children) }

\* C11: getVoxel(p) is empty for every p outside the root volume, and
\* containment is half-open: a point with a coordinate equal to
\* position + size is outside, the minimum corner is inside.
OutOfBoundsRead ==
  /\ (call.op = "getVoxel" /\ ~InVolume(root, call.position))
       => call.result = Null
  /\ \A p \in Positions \cup Positions4 :
       /\ containsPoint(root, p) <=> InVolume(root, p)
       /\ ~InVolume(root, p) => getVoxel(root, p) = Null
  /\ containsPoint(root, root.position)
  /\ \A p \in Cells(root), i \in 1..3 :
       ~containsPoint(root, [p EXCEPT ![i] = root.position[i] + root.size])

\* getVoxel was called just outside the maximum face, next to a stored voxel.
OutOfBoundsReadWitness ==
  /\ call.op = "getVoxel"
  /\ call.position[1] = root.position[1] + root.size
  /\ call.result = Null
  /\ getVoxel(root, Plus(call.position, <<-1, 0, 0>>)) # Null

\* No two elements of a sequence are equal.
NoDuplicates(seq) ==
  \A i, j \in 1..Len(seq) : seq[i] = seq[j] => i = j

\* C12 as stated: every node passed to the callback holds a stored voxel, no
\* node is passed twice and no node that has children is passed.
OncePerStoredVoxel ==
  call.op = "traverse" =>
    /\ \A k \in 1..Len(call.visits) : call.visits[k].voxel # Null
    /\ NoDuplicates(call.visits)
    /\ \A k \in 1..Len(call.visits) : call.visits[k].children = NoChildren

\* C12 amended: traverse passes exactly the nodes at depth = maxDepth, holding
\* a voxel or not, each once; none of them has children, and every stored
\* voxel is held by exactly one of them.
OncePerLeaf ==
  call.op = "traverse" =>
    /\ { call.visits[k] : k \in 1..Len(call.visits) }
         = { n \in AllNodes(root) : n.depth = n.maxDepth }
    /\ NoDuplicates(call.visits)
    /\ \A k \in 1..Len(call.visits) : call.visits[k].children = NoChildren
    /\ \A p \in Cells(root) :
         getVoxel(root, p) # Null =>
           Cardinality({ k \in 1..Len(call.visits) :
                           /\ containsPoint(call.visits[k], p)
                           /\ call.visits[k].voxel = getVoxel(root, p) }) = 1

\* traverse ran on a subdivided tree that holds a voxel and empty leaves.
OncePerLeafWitness ==
  /\ call.op = "traverse"
  /\ root.children # NoChildren
  /\ \E k \in 1..Len(call.visits) : call.visits[k].voxel # Null
  /\ \E k \in 1..Len(call.visits) : call.visits[k].voxel = Null

\* The position (floats 1..3) and the colour (floats 4..7) of vertex j,
\* counted from 0, of a run.
VertexPosition(chunk, j) ==
  SubSeq(chunk, FLOATS_PER_VERTEX * j + 1, FLOATS_PER_VERTEX * j + 3)

VertexColor(chunk, j) ==
  SubSeq(chunk, FLOATS_PER_VERTEX * j + 4, FLOATS_PER_VERTEX * (j + 1))

\* The number of coordinates in which two points differ.
Differing(a, b) == Cardinality({ i \in 1..3 : a[i] # b[i] })

\* The visited nodes that hold an active voxel.
Emitters(r) ==
  { n \in VisitedNodes(r) : n.voxel # Null /\ n.voxel.active }

\* The run is a quad c0 c1 c2 c3, given in perimeter order, split as the fan
\* (c0, c1, c2), (c0, c2, c3).
FanSplit(chunk) ==
  LET c0 == VertexPosition(chunk, 0)
      c1 == VertexPosition(chunk, 1)
      c2 == VertexPosition(chunk, 2)
      c3 == VertexPosition(chunk, 5)
  IN  /\ VertexPosition(chunk, 3) = c0
      /\ VertexPosition(chunk, 4) = c2
      /\ Cardinality({c0, c1, c2, c3}) = 4
      /\ Differing(c0, c1) = 1 /\ Differing(c1, c2) = 1
      /\ Differing(c2, c3) = 1 /\ Differing(c3, c0) = 1

\* The run is a face of the cube of node n and carries the colour of its voxel
\* in every vertex.
OwnedBy(chunk, n) ==
  /\ ChunkCorners(chunk) \in CubeFaces(n)
  /\ \A j \in 0..(VERTICES_PER_FACE - 1) : VertexColor(chunk, j) = n.voxel.color

\* C13: the length of the getVertices() buffer is a multiple of 42; every run
\* of 42 floats is one face given as four corners fan-split into (0, 1, 2)
\* and (0, 2, 3); floats 4..7 of each vertex are the colour of the voxel that
\* owns the face.
VertexFormat ==
  LET buf == getVertices(root)
      chunks == Chunks(buf)
      owners == Emitters(root)
  IN  /\ Len(buf) % FLOATS_PER_FACE = 0
      /\ \A i \in 1..Len(chunks) :
           /\ FanSplit(chunks[i])
           /\ \E n \in owners : OwnedBy(chunks[i], n)

\* getVertices ran on a tree whose buffer holds faces of two colours.
VertexFormatWitness ==
  /\ call.op = "getVertices"
  /\ LET chunks == Chunks(getVertices(root))
     IN  \E i, j \in 1..Len(chunks) :
           VertexColor(chunks[i], 0) # VertexColor(chunks[j], 0)

Minus(a, b) == << a[1] - b[1], a[2] - b[2], a[3] - b[3] >>

Cross(a, b) ==
  << a[2] * b[3] - a[3] * b[2], a[3] * b[1] - a[1] * b[3],
     a[1] * b[2] - a[2] * b[1] >>

Dot(a, b) == a[1] * b[1] + a[2] * b[2] + a[3] * b[3]

Sign(n) == IF n > 0 THEN 1 ELSE IF n < 0 THEN -1 ELSE 0

\* The sign of ((v1 - v0) x (v2 - v0)) . normal.
Orientation(v0, v1, v2, normal) ==
  Sign(Dot(Cross(Minus(v1, v0), Minus(v2, v0)), normal))

\* The orientations of the two triangles of each row of the faces table of a
\* node, relative to the outward normal of the row (towards its neighbour).
TableOrientations(n) ==
  LET fs == faces(n.position[1], n.position[2], n.position[3], n.size)
      Out(k) == Minus(fs[k].neighbor, n.position)
  IN  UNION { { Orientation(fs[k].vertices[1], fs[k].vertices[2],
                            fs[k].vertices[3], Out(k)),
                Orientation(fs[k].vertices[1], fs[k].vertices[3],
                            fs[k].vertices[4], Out(k)) } : k \in 1..Len(fs) }

\* The orientations of the two triangles of each run of the buffer, relative
\* to the outward normal of the face of the cube the run lies on.
BufferOrientations(r) ==
  LET chunks == Chunks(getVertices(r))
      sides == { <<n, d>> : n \in Emitters(r), d \in UnitSteps }
      Normals(chunk) ==
        { nd[2] : nd \in { x \in sides :
                             ChunkCorners(chunk)
                               = FaceCorners(x[1].position, x[1].size, x[2]) } }
  IN  UNION { { Orientation(VertexPosition(chunks[i], 3 * t),
                            VertexPosition(chunks[i], 3 * t + 1),
                            VertexPosition(chunks[i], 3 * t + 2), d) :
                  t \in 0..1, d \in Normals(chunks[i]) } :
              i \in 1..Len(chunks) }

\* C14: for each of the six directions the two triangles of a face have the
\* same orientation relative to the outward normal, and that orientation is
\* the same for all six directions, in the faces table of every visited node
\* and in every buffer getVertices() returns.
ConsistentWinding ==
  LET emitted == BufferOrientations(root)
  IN  /\ \A n \in VisitedNodes(root) :
           LET table == TableOrientations(n)
           IN  /\ Cardinality(table) = 1
               /\ 0 \notin table
               /\ emitted \subseteq table
      /\ Cardinality(emitted) <= 1

\* getVertices ran on a tree whose buffer holds faces in all six directions.
ConsistentWindingWitness ==
  /\ call.op = "getVertices"
  /\ \A d \in UnitSteps :
       \E n \in Emitters(root) :
         FaceCorners(n.position, n.size, d) \in EmittedFaces(getVertices(root))

\* The root is the node the constructor builds for its size and depth limit.
RootAsConstructed ==
  /\ root.depth = 0
  /\ root.position = VoxelOctree(getSize(root), getMaxDepth(root)).position

\* C15: over any sequence of setVoxel, getVoxel, updateVoxelActive,
\* updateActiveStates, getVertices, traverse and clear, getSize() and
\* getMaxDepth() keep the values passed to the constructor and the root keeps
\* its minimum corner, across clear() too.
RootImmutable ==
  /\ []RootAsConstructed
  /\ [][/\ getSize(root') = getSize(root)
        /\ getMaxDepth(root') = getMaxDepth(root)
        /\ root'.position = root.position]_vars

\* clear() replaced the root of a subdivided tree by an empty one of the same
\* size, depth limit and corner.
RootImmutableWitness ==
  /\ call.op = "clear"
  /\ call.before.children # NoChildren
  /\ root.children = NoChildren
  /\ getSize(root) = getSize(call.before)
  /\ getMaxDepth(root) = getMaxDepth(call.before)
  /\ root.position = call.before.position

\* C16: in every reachable tree each node has depth <= maxDepth, a node at
\* depth = maxDepth has no children, and a node has either no child array or
\* exactly 8 allocated children.
Structure ==
  \A n \in AllNodes(root) :
    /\ n.depth <= n.maxDepth
    /\ n.depth = n.maxDepth => n.children = NoChildren
    /\ \/ n.children = NoChildren
       \/ /\ Len(n.children) = CHILD_COUNT
          /\ \A k \in 1..CHILD_COUNT : n.children[k] # Null

\* A tree with a subdivided and an unsubdivided node below the root and a
\* voxel stored in a leaf.
StructureWitness ==
  /\ call.op = "setVoxel"
  /\ \E n \in AllNodes(root) : n.depth = 1 /\ n.children # NoChildren
  /\ \E n \in AllNodes(root) :
       n.depth = 1 /\ n.depth < n.maxDepth /\ n.children = NoChildren
  /\ \E n \in AllNodes(root) : n.depth = n.maxDepth /\ n.voxel # Null

\* The nodes of the tree r that have children.
Subdivided(r) == { n \in AllNodes(r) : n.children # NoChildren }

\* C17: for every subdivided node N and every point p that N contains, the
\* child at index getChildIndexForPosition(p) contains p and no other child
\* does.
OctantConsistency ==
  \A n \in Subdivided(root) :
    \A p \in Cells(root) :
      containsPoint(n, p) =>
        \A i \in 0..(CHILD_COUNT - 1) :
          containsPoint(n.children[i + 1], p)
            <=> i = getChildIndexForPosition(n, p)

\* A subdivided node below the root holds a voxel in one of its children.
OctantConsistencyWitness ==
  \E n \in Subdivided(root) :
    /\ n.depth > 0
    /\ \E i \in 1..CHILD_COUNT : n.children[i].voxel # Null

\* The minimum corner subdivide is to give child i of node n: the corner of
\* n moved by half its size along X, Y, Z for bits 0, 1, 2 of i.
OctantCorner(n, i) ==
  << n.position[1] + (i % 2) * (n.size \div 2),
     n.position[2] + ((i \div 2) % 2) * (n.size \div 2),
     n.position[3] + (i \div 4) * (n.size \div 2) >>

\* C18: the children of a subdivided node have depth one more than the
\* parent, half its size and its maxDepth; child i has the corner of the
\* parent offset by half the size along X, Y, Z for bits 0, 1, 2 of i; the
\* cubes of the 8 children are pairwise disjoint and their union is the cube
\* of the parent.
SubdivisionGeometry ==
  \A n \in Subdivided(root) :
    /\ \A i \in 0..(CHILD_COUNT - 1) :
         /\ n.children[i + 1].depth = n.depth + 1
         /\ 2 * n.children[i + 1].size = n.size
         /\ n.children[i + 1].maxDepth = n.maxDepth
         /\ n.children[i + 1].position = OctantCorner(n, i)
    /\ \A i, j \in 1..CHILD_COUNT :
         i # j => Cells(n.children[i]) \cap Cells(n.children[j]) = {}
    /\ UNION { Cells(n.children[i]) : i \in 1..CHILD_COUNT } = Cells(n)

\* The root and a node below it are both subdivided.
SubdivisionGeometryWitness ==
  /\ root.children # NoChildren
  /\ \E i \in 1..CHILD_COUNT : root.children[i].children # NoChildren

\* The nodes with children in the tree `after` that sit where the tree
\* `before` had no node with children.
NewlySubdivided(before, after) ==
  LET had == { <<n.position, n.depth>> : n \in Subdivided(before) }
  IN  { n \in Subdivided(after) : <<n.position, n.depth>> \notin had }

\* C19: a node becomes subdivided only by a setVoxel that writes a non-empty
\* voxel at a position inside the root volume, and only if it contains that
\* position; setVoxel(p, empty), getVoxel, traverse, updateActiveStates and
\* getVertices allocate no node; writing empty into a tree whose root is
\* unsubdivided leaves the root unsubdivided.
LazySubdivision ==
  [][/\ NewlySubdivided(root, root') # {} =>
          /\ call'.op = "setVoxel"
          /\ call'.voxel # Null
          /\ InVolume(root, call'.position)
          /\ \A n \in NewlySubdivided(root, root') : InVolume(n, call'.position)
     /\ (call'.op = "setVoxel" /\ call'.voxel = Null)
          => CountNodes(root') = CountNodes(root)
     /\ call'.op \in {"getVoxel", "traverse", "updateActiveStates", "getVertices"}
          => CountNodes(root') = CountNodes(root)
     /\ (call'.op = "setVoxel" /\ call'.voxel = Null /\ root.children = NoChildren)
          => root'.children = NoChildren]_vars

\* Empty was written at a position inside an unsubdivided node of a
\* subdivided tree, and the node is still unsubdivided.
LazySubdivisionWitness ==
  /\ call.op = "setVoxel"
  /\ call.voxel = Null
  /\ root.children # NoChildren
  /\ \E n \in AllNodes(root) :
       /\ n.depth < n.maxDepth
       /\ n.children = NoChildren
       /\ InVolume(n, call.position)

\* The edge of a cell at depth maxDepth of the tree r.
LeafSize(r) == r.size \div (2 ^ r.maxDepth)

\* The index, along each axis, of the cell at depth maxDepth of the tree r
\* that p falls in, for cells of edge `leaf`.
LeafCell(r, leaf, p) ==
  << (p[1] - r.position[1]) \div leaf, (p[2] - r.position[2]) \div leaf,
     (p[3] - r.position[3]) \div leaf >>

\* Points p and q lie in the same cell at depth maxDepth of the tree r.
SameLeafCell(r, p, q) ==
  LeafCell(r, LeafSize(r), p) = LeafCell(r, LeafSize(r), q)

\* Two opposite integer points of every cell at depth maxDepth of the tree r:
\* its minimum corner and the point furthest from it.
CellProbes(r) ==
  LET leaf == LeafSize(r)
      axis(i) == { r.position[i] + leaf * k : k \in 0..((2 ^ r.maxDepth) - 1) }
      corners == { <<x, y, z>> : x \in axis(1), y \in axis(2), z \in axis(3) }
  IN  corners \cup { Plus(c, <<leaf - 1, leaf - 1, leaf - 1>>) : c \in corners }

\* C20: setVoxel(p, v) changes at most the voxel of the leaf cell that
\* contains p: for every q in another leaf cell getVoxel(q) returns the same
\* voxel (material, colour, active flag) as before the call.
SetVoxelFrame ==
  [][call'.op = "setVoxel" =>
       LET leaf == LeafSize(root)
           written == LeafCell(root, leaf, call'.position)
       IN  \A q \in CellProbes(root) :
             LeafCell(root, leaf, q) # written
               => getVoxel(root', q) = getVoxel(root, q)]_vars

\* A voxel was written while a different voxel is stored in another leaf
\* cell.
SetVoxelFrameWitness ==
  /\ call.op = "setVoxel"
  /\ call.voxel # Null
  /\ getVoxel(root, call.position) = call.voxel
  /\ \E q \in CellProbes(root) :
       /\ ~SameLeafCell(root, call.position, q)
       /\ getVoxel(root, q) # Null
       /\ getVoxel(root, q) # call.voxel

\* The children tried one after the other, from the first, until one
\* contains the position.
RECURSIVE getVoxelPathScan(_, _)
getVoxelPathScan(node, position) ==
  << node >> \o
    (IF containsPoint(node, position)
        /\ ~(node.depth = node.maxDepth \/ node.voxel # Null)
        /\ node.children # NoChildren
       THEN LET childIndex == getChildIndexForPosition(node, position)
            IN  SubSeq(node.children, 1, childIndex)
                  \o getVoxelPathScan(node.children[childIndex + 1], position)
       ELSE << >>)

\* The nodes getVoxel is called on, in call order, for one lookup.
RECURSIVE getVoxelPath(_, _)
getVoxelPath(node, position) ==
  << node >> \o
    (IF containsPoint(node, position)
        /\ ~(node.depth = node.maxDepth \/ node.voxel # Null)
        /\ node.children # NoChildren
       THEN getVoxelPath(node.children[getChildIndexForPosition(node, position) + 1],
                         position)
       ELSE << >>)

\* The nodes setVoxel is called on, in call order, for one write; a node
\* created by the write appears as subdivide made it.
RECURSIVE setVoxelPath(_, _, _)
setVoxelPath(node, position, voxel) ==
  << node >> \o
    (IF containsPoint(node, position) /\ node.depth # node.maxDepth
       THEN LET n1 == IF node.children = NoChildren /\ voxel # Null
                        THEN subdivide(node) ELSE node
            IN  IF n1.children # NoChildren
                  THEN setVoxelPath(
                         n1.children[getChildIndexForPosition(n1, position) + 1],
                         position, voxel)
                  ELSE << >>
       ELSE << >>)

\* The nodes traverse is called on, in call order, for one traversal.
RECURSIVE traverseCalls(_)
RECURSIVE traverseCallsFrom(_, _)
traverseCallsFrom(children, k) ==
  IF k > Len(children) THEN << >>
  ELSE traverseCalls(children[k]) \o traverseCallsFrom(children, k + 1)

traverseCalls(node) == << node >> \o traverseCallsFrom(node.children, 1)

\* A call path goes down one level per call, from depth 0, and so has at most
\* maxDepth + 1 nodes.
OnePerLevel(path, maxDepth) ==
  /\ Len(path) <= maxDepth + 1
  /\ \A k \in 1..Len(path) : path[k].depth = k - 1

\* C21: a getVoxel or setVoxel call visits at most maxDepth + 1 nodes, one
\* per depth level, and the traversal that traverse, updateActiveStates and
\* getVertices run visits every allocated node once and no node twice.
BoundedVisits ==
  /\ \A p \in Positions4 :
       /\ OnePerLevel(getVoxelPath(root, p), root.maxDepth)
       /\ \A v \in Voxels4 \cup {Null} :
            OnePerLevel(setVoxelPath(root, p, v), root.maxDepth)
  /\ LET calls == traverseCalls(root)
     IN  /\ NoDuplicates(calls)
         /\ { calls[k] : k \in 1..Len(calls) } = AllNodes(root)
         /\ Len(calls) = CountNodes(root)

\* getVoxel went down to a leaf of a tree with two subdivided levels.
BoundedVisitsWitness ==
  /\ call.op = "getVoxel"
  /\ call.result # Null
  /\ Len(getVoxelPath(root, call.position)) = root.maxDepth + 1
  /\ root.maxDepth > 1

\* The allocated nodes of the tree r, each as its corner, size and depth.
NodeKeys(r) == { <<n.position, n.size, n.depth>> : n \in AllNodes(r) }

\* C23: updateActiveStates() changes only the active flag of stored voxels:
\* the occupied positions, the material and colour of every voxel, the
\* allocated nodes, size and maxDepth are as before the call; and a second
\* call right after the first changes nothing.
UpdateActiveStatesFrame ==
  [][call'.op = "updateActiveStates" =>
       /\ Stored(root') = Stored(root)
       /\ \A p \in Stored(root) :
            /\ getVoxel(root', p).material = getVoxel(root, p).material
            /\ getVoxel(root', p).color = getVoxel(root, p).color
       /\ NodeKeys(root') = NodeKeys(root)
       /\ getSize(root') = getSize(root)
       /\ getMaxDepth(root') = getMaxDepth(root)
       /\ updateActiveStates(root') = root']_vars

\* updateActiveStates ran on a tree holding a voxel that was written with
\* its flag false, and two voxels of different colours.
UpdateActiveStatesFrameWitness ==
  /\ call.op = "updateActiveStates"
  /\ \E p, q \in Stored(root) :
       /\ getVoxel(root, p).material = 2
       /\ getVoxel(root, p).active
       /\ getVoxel(root, q).color # getVoxel(root, p).color

\* C24: after updateActiveStates() every stored voxel has its flag true,
\* whatever its neighbours hold: the lookups of hasExposedFaces run on the
\* visited node, and the neighbour one step down the X axis from the corner
\* of a node is outside that node and reads as empty.
AllActiveAfterUpdate ==
  /\ call.op = "updateActiveStates" =>
       \A p \in Stored(root) : getVoxel(root, p).active
  /\ \A n \in AllNodes(root) :
       /\ getVoxel(n, Plus(n.position, <<-1, 0, 0>>)) = Null
       /\ hasExposedFaces(n, n.position)

\* updateActiveStates ran on a tree where a voxel has all six neighbours
\* stored, and its flag is true.
AllActiveAfterUpdateWitness ==
  /\ call.op = "updateActiveStates"
  /\ \E p \in Stored(root) :
       /\ \A d \in UnitSteps : getVoxel(root, Plus(p, d)) # Null
       /\ getVoxel(root, p).active

\* C29: setVoxel never removes a node: every node allocated before the call
\* is allocated after it, a write of empty included; only clear() reduces
\* the set of nodes, and it leaves a single root without children.
NoDeallocation ==
  [][/\ call'.op = "setVoxel" => NodeKeys(root) \subseteq NodeKeys(root')
     /\ ~(NodeKeys(root) \subseteq NodeKeys(root')) => call'.op = "clear"
     /\ call'.op = "clear" =>
          /\ root'.children = NoChildren
          /\ NodeKeys(root') = { <<root.position, root.size, 0>> }]_vars

\* Empty was written over the last stored voxel: the tree holds no voxel and
\* the leaf and its ancestors are still allocated.
NoDeallocationWitness ==
  /\ call.op = "setVoxel"
  /\ call.voxel = Null
  /\ Stored(root) = {}
  /\ \E n \in AllNodes(root) :
       n.depth = n.maxDepth /\ n.depth > 1 /\ InVolume(n, call.position)

\* C30: every node with depth < maxDepth has an empty voxel slot.
InternalSlotsEmpty ==
  \A n \in AllNodes(root) : n.depth < n.maxDepth => n.voxel = Null

\* Empty was written at a position inside a root that is not a leaf and has
\* no children: the write went to the slot of the root.
InternalSlotsEmptyWitness ==
  /\ call.op = "setVoxel"
  /\ call.voxel = Null
  /\ root.depth < root.maxDepth
  /\ root.children = NoChildren
  /\ InVolume(root, call.position)
  /\ root.voxel = Null

\* The elements of a sequence.
Range(seq) == { seq[k] : k \in 1..Len(seq) }

\* The ids created and not destroyed since that have a component of every
\* type in `names` added and not taken away since.
LiveHolders(names) ==
  { e \in ledger.live : \A name \in names : <<e, name>> \in ledger.attached }

\* C25: getEntitiesWith(T1..Tn) returns exactly the entities created and not
\* yet destroyed that hold a component of every listed type, all live
\* entities when no type is listed; a destroyed id and an id never created
\* are not returned, also when addComponent was called for them.
QueryExact ==
  /\ call.op = "getEntitiesWith" =>
       /\ Range(call.result) = LiveHolders(call.names)
       /\ NoDuplicates(call.result)
  /\ \A names \in SUBSET ComponentNames :
       /\ Range(getEntitiesWith(world, names)) = LiveHolders(names)
       /\ \A e \in EntityIds :
            e \notin ledger.live => e \notin Range(getEntitiesWith(world, names))

\* The query returned an entity while a destroyed id and an id never
\* created both have a component of the queried type from an addComponent.
QueryExactWitness ==
  /\ call.op = "getEntitiesWith"
  /\ call.names # {}
  /\ call.result # << >>
  /\ \E e \in Range(ledger.returned), f \in EntityIds :
       /\ e \notin ledger.live
       /\ f \notin Range(ledger.returned)
       /\ \A name \in call.names :
            e \in world.components[name] /\ f \in world.components[name]
       /\ e \notin Range(call.result)
       /\ f \notin Range(call.result)

\* C26: createEntity returns 1, 2, 3, ... in that order: every id is one
\* more than the id before, and no id comes back twice, also after the
\* entity that held it was destroyed.
FreshIds ==
  /\ \A k \in 1..Len(ledger.returned) : ledger.returned[k] = k
  /\ NoDuplicates(ledger.returned)
  /\ call.op = "createEntity" =>
       call.result = ledger.returned[Len(ledger.returned)]

\* createEntity returned 2 after entity 1 was destroyed.
FreshIdsWitness ==
  /\ call.op = "createEntity"
  /\ call.result = 2
  /\ 1 \notin ledger.live
  /\ Range(world.entities) = {2}

\* The tree a fresh octree becomes when the entries of a flat map are
\* written into it one after the other.
RECURSIVE Populate(_, _)
Populate(r, map) ==
  IF map = {} THEN r
  ELSE LET e == CHOOSE x \in map : TRUE
       IN  Populate(setVoxel(r, e[1], e[2]), map \ {e})

\* C22: on a unit grid, after any sequence of setVoxel and clear, getVoxel(p)
\* is the entry of p in the flat map built by the same calls, and
\* getVertices() is, element for element, the buffer of a fresh tree
\* populated from that map: the buffer depends on the map alone, not on the
\* calls that led to it.
ReferenceEquivalence ==
  /\ \A p \in Cells(root) \cup Positions :
       getVoxel(root, p) = MapLookup(reference, p)
  /\ getVertices(root)
       = getVertices(Populate(VoxelOctree(getSize(root), getMaxDepth(root)),
                              reference))

\* An entry was deleted and its nodes stay allocated, while the map holds an
\* active voxel next to an inactive one.
ReferenceEquivalenceWitness ==
  /\ call.op = "setVoxel"
  /\ call.voxel = Null
  /\ CountNodes(root)
       > CountNodes(Populate(VoxelOctree(getSize(root), getMaxDepth(root)),
                             reference))
  /\ \E e, f \in reference :
       /\ e[2].active
       /\ ~f[2].active
       /\ \E d \in UnitSteps : f[1] = Plus(e[1], d)

\* Every draw of the last render() reads no further than its vertex buffer.
DrawWithinBuffer ==
  call.op = "render" =>
    \A k \in 1..Len(call.result.draws) :
      call.result.draws[k].count * ARRAY_STRIDE
        <= call.result.draws[k].bufferSize

\* The last render() reached the GPU only with initialize() completed and
\* dispose() not called.
GpuOnlyWhileReady ==
  (call.op = "render" /\ call.result.gpu) =>
    renderer.completed > 0 /\ ~renderer.disposed

\* C28: under any interleaving of octree writes, updateVoxelData, render()
\* and dispose(), every draw of render() uses a vertex count whose byte size
\* (count x 28) is at most the size of the vertex buffer bound for the
\* octree, and render() issues no GPU work before initialize() has completed
\* or after dispose().
DrawSafety == DrawWithinBuffer /\ GpuOnlyWhileReady

\* The fields of the scene the source has.
SceneFields(sc) == <<sc.isDisposed, sc.animationFrameId, sc.initialized>>

\* C27: once dispose() has run, no callback fired by the browser calls
\* update() again, however the already requested frames, further dispose()
\* calls and start() calls interleave; a second dispose() changes nothing,
\* and start() on a disposed scene requests no frame.
Shutdown ==
  [][ scene.ran # {} =>
        /\ call'.op = "animate" => ~call'.updated
        /\ call'.op = "dispose" =>
             /\ SceneFields(scene') = SceneFields(scene)
             /\ UNCHANGED <<root, world, renderer, frames>>
        /\ call'.op = "start" =>
             /\ frames' = frames
             /\ SceneFields(scene') = SceneFields(scene) ]_vars

\* After dispose() a frame requested before it has fired, and dispose() and
\* start() have been called again.
ShutdownWitness ==
  /\ scene.ran = {"dispose", "animate", "again", "start"}
  /\ scene.isDisposed
  /\ frames.pending = {}

====
